---- MODULE Spec2Model ----
(***************************************************************************)
(* Consensus ADMM driver of cvxpy/consensus/consensus.py.                  *)
(*                                                                         *)
(* Spec      pull mode: consensus() driving N run_worker processes over    *)
(*           duplex pipes, with the default spectral = False, under which  *)
(*           run_worker skips the step size update and keeps rho_init.     *)
(* SpecAvg   the averaging of x_average() and of consensus_map() applied   *)
(*           to one bounded list of worker reports.                        *)
(* SpecStep  the spectral step size rule step_spec(), iterated.            *)
(* SpecCall  one call of step_spec() on bounded vectors.                   *)
(* SpecAdapt pull mode with the keyword arguments spectral, Tf and C.      *)
(* SpecMap   push mode: consensus_map() driving worker_map processes.      *)
(* SpecModes pull mode and push mode side by side.                         *)
(* SpecLive  pull mode under fair scheduling.                              *)
(* SpecRun   consensus() on two scalar quadratic problems, with the exact  *)
(*           values of x, xbar and u of every round.                       *)
(***************************************************************************)
EXTENDS Integers, Sequences, FiniteSets, TLC

\* Bounds of the model.
MaxN == 2
MaxIter == 2
MaxReports == 3
MaxK == 2
MaxSteps == 2
MaxTf == 3

VARIABLES
    \* inputs of consensus(p_list, max_iter = .., rho_init = ..) and the
    \* keyword arguments it hands on to run_worker
    p_list, max_iter, rho_init, rho_supplied, kw,
    \* coordinator (consensus): position, loop indices, locals
    cpc, ci, cj, pipes, procs, prox_res, xbars, outcome, result,
    \* the two directions of every Pipe()
    toCoord, toWorker,
    \* workers (run_worker): position and locals
    wpc, wrho, wstatus, wx, wxbar, wu,
    \* history: per worker its events, per pipe the reports read and the
    \* broadcasts written by the coordinator
    wlog, nrecv, sentlog,
    \* SpecAvg: the replies handed to the averaging and what came out
    avg_in, avg_pc, avg_out,
    \* SpecStep: the step size (by its square), the eps and C of the worker,
    \* the call count, the rho and k of the last call
    st_rho, st_par, st_n, st_call,
    \* run_worker with spectral = True: per worker the vectors retained from
    \* the last step size update and the history of its step_spec calls
    v_old, calls,
    \* push mode: the caller's list of dual dicts, per pipe the replies read
    udicts, maplog,
    \* SpecRun: the run of two scalar quadratic problems: position, round,
    \* and x, xbar, u of the two workers as numerators over one denominator
    sc_pc, sc_i, sc_den, sc_x, sc_xbar, sc_u, sc_xbars

vars == <<p_list, max_iter, rho_init, rho_supplied, kw,
          cpc, ci, cj, pipes, procs, prox_res, xbars, outcome, result,
          toCoord, toWorker, wpc, wrho, wstatus, wx, wxbar, wu,
          wlog, nrecv, sentlog, avg_in, avg_pc, avg_out,
          st_rho, st_par, st_n, st_call, v_old, calls, udicts, maplog,
          sc_pc, sc_i, sc_den, sc_x, sc_xbar, sc_u, sc_xbars>>

inputVars == <<p_list, max_iter, rho_init, rho_supplied, kw>>
coordVars == <<cpc, ci, cj, pipes, procs, prox_res, xbars, outcome, result>>
workerVars == <<wpc, wrho, wstatus, wx, wxbar, wu>>
chanVars == <<toCoord, toWorker>>
histVars == <<wlog, nrecv, sentlog>>
avgVars == <<avg_in, avg_pc, avg_out>>
stepVars == <<st_rho, st_par, st_n, st_call>>
adaptVars == <<v_old, calls>>
mapVars == <<udicts, maplog>>
convVars == <<sc_pc, sc_i, sc_den, sc_x, sc_xbar, sc_u, sc_xbars>>

(***************************************************************************)
(* Numbers.  Python floats are modelled as exact rationals [num, den] in   *)
(* lowest terms with den > 0.                                              *)
(***************************************************************************)
Abs(a) == IF a < 0 THEN -a ELSE a

RECURSIVE GCD(_, _)
GCD(a, b) == IF b = 0 THEN a ELSE GCD(b, a % b)

NZ(g) == IF g = 0 THEN 1 ELSE g

\* n/d in lowest terms; x/0 is the float inf for x > 0 and 0/0 the float nan
Frac(n, d) ==
    LET g == NZ(GCD(Abs(n), Abs(d)))
        s == IF d < 0 THEN -1 ELSE 1
    IN  [num |-> (s * n) \div g, den |-> (s * d) \div g]

NaN == [num |-> 0, den |-> 0]

Zero == [num |-> 0, den |-> 1]
One == [num |-> 1, den |-> 1]
FInt(n) == [num |-> n, den |-> 1]
FAdd(a, b) ==
    LET g == NZ(GCD(a.den, b.den))
    IN  Frac(a.num * (b.den \div g) + b.num * (a.den \div g), (a.den \div g) * b.den)
FSub(a, b) == FAdd(a, [num |-> -b.num, den |-> b.den])
FMul(a, b) ==
    LET g1 == NZ(GCD(Abs(a.num), b.den))
        g2 == NZ(GCD(Abs(b.num), a.den))
    IN  Frac((a.num \div g1) * (b.num \div g2), (a.den \div g2) * (b.den \div g1))
FDiv(a, b) == FMul(a, Frac(b.den, b.num))
FLt(a, b) ==
    LET g1 == NZ(GCD(Abs(a.num), Abs(b.num)))
        g2 == NZ(GCD(a.den, b.den))
    IN  (a.num \div g1) * (b.den \div g2) < (b.num \div g1) * (a.den \div g2)
\* a comparison with nan is false
FLe(a, b) == a # NaN /\ b # NaN /\ ~FLt(b, a)

\* The value of a variable whose problem was not solved to optimality.
None == [num |-> 0, den |-> 0]

(***************************************************************************)
(* Problem data.                                                           *)
(***************************************************************************)
Keys == {"x", "y"}
\* The variables of a problem: of the pull-mode run, of the averaged reports.
VarSets == {{"x"}}
AvgVarSets == {{"x"}, {"x", "y"}}
AvgVals == {FInt(2), FInt(4), FInt(6)}
Vals == {FInt(1), FInt(2)}
Rhos == {FInt(2)}
OPTIMAL == "optimal"
INF_OR_UNB == {"infeasible", "unbounded"}
Statuses == {OPTIMAL} \cup INF_OR_UNB

\* dict.get(key, 0) of a defaultdict
Get(m, k) == IF k \in DOMAIN m THEN m[k] ELSE Zero
GetCnt(m, k) == IF k \in DOMAIN m THEN m[k] ELSE 0
EmptyMap == [k \in {} |-> Zero]

(***************************************************************************)
(* Averaging: x_average (pull mode) and the gather of consensus_map (push  *)
(* mode).  A report is [status, xvals], a push-mode reply also has uvals.  *)
(***************************************************************************)
\* xbars[key] += value for every (key, value) of xvals.items()
AddVals(xb, xvals) ==
    [k \in DOMAIN xb \cup DOMAIN xvals |->
        IF k \in DOMAIN xvals THEN FAdd(Get(xb, k), xvals[k]) ELSE xb[k]]

\* ++xcnts[key] is +(+xcnts[key]): the count is looked up (the defaultdict
\* inserts the key with 0) and the value of the expression is dropped.
PlusPlus(c) == c

Touch(xc, xvals) ==
    [k \in DOMAIN xc \cup DOMAIN xvals |->
        IF k \in DOMAIN xvals THEN PlusPlus(GetCnt(xc, k)) ELSE xc[k]]

\* The loop over prox_res: stops with raised = TRUE at the first status in
\* INF_OR_UNB, else sums the report into xbars and touches xcnts.
RECURSIVE SumLoop(_, _, _, _)
SumLoop(res, n, xb, xc) ==
    IF n > Len(res)
    THEN [raised |-> FALSE, xbars |-> xb, xcnts |-> xc]
    ELSE IF res[n].status \in INF_OR_UNB
         THEN [raised |-> TRUE, xbars |-> xb, xcnts |-> xc]
         ELSE SumLoop(res, n + 1, AddVals(xb, res[n].xvals), Touch(xc, res[n].xvals))

\* for key in keys: if xcnts[key] != 0: xbars[key] /= xcnts[key]
Divide(xb, xc, keys) ==
    [k \in DOMAIN xb |->
        IF k \in keys /\ GetCnt(xc, k) # 0
        THEN FDiv(xb[k], FInt(GetCnt(xc, k)))
        ELSE xb[k]]

RECURSIVE OptimalOnly(_)
OptimalOnly(res) ==
    IF res = <<>> THEN <<>>
    ELSE (IF Head(res).status = OPTIMAL THEN <<Head(res)>> ELSE <<>>) \o OptimalOnly(Tail(res))

\* x_average without the status check: failed reports are skipped.
x_averageNoRaise(res) ==
    LET s == SumLoop(OptimalOnly(res), 1, EmptyMap, [k \in {} |-> 0])
    IN  [raised |-> FALSE,
         xbars |-> Divide(s.xbars, s.xcnts, DOMAIN s.xbars)]

x_average(res) ==
    LET s == SumLoop(res, 1, EmptyMap, [k \in {} |-> 0])
    IN  [raised |-> s.raised,
         xbars |-> Divide(s.xbars, s.xcnts, DOMAIN s.xbars)]

\* udicts_n += [uvals] for every reply read before the raise
RECURSIVE Udicts(_, _)
Udicts(replies, n) ==
    IF n = 0 THEN <<>>
    ELSE Append(Udicts(replies, n - 1), replies[n].uvals)

\* The gather of consensus_map over the replies read from pipes[0..N-1];
\* the division runs over the keys of the xbars passed in.
consensus_map_gather(replies, xbars_in) ==
    LET s == SumLoop(replies, 1, EmptyMap, [k \in {} |-> 0])
    IN  [raised |-> s.raised,
         xbars |-> Divide(s.xbars, s.xcnts, DOMAIN xbars_in),
         udicts |-> IF s.raised THEN <<>> ELSE Udicts(replies, Len(replies))]

(***************************************************************************)
(* Spectral step size.  A real x that is a rational or the square root of  *)
(* a rational is held as its signed square Sg(x) = sign(x) * x^2, an exact *)
(* rational; x < y exactly when Sg(x) < Sg(y).  A float division of a      *)
(* positive number by zero gives Inf.                                      *)
(***************************************************************************)
Inf == [num |-> 1, den |-> 0]

Sg(a) == IF a.num < 0 THEN FSub(Zero, FMul(a, a)) ELSE FMul(a, a)

\* The difference vectors of a call and the parameters eps and C.
Vecs == {<<0, 0>>, <<1, 0>>, <<1, 2>>, <<2, -1>>, <<-1, -1>>}
Epss == {Frac(1, 5), Frac(1, 2)}
Cs == {0, 3}
StepRhos == {One, FInt(2)}

\* np.sum(p*d)
RECURSIVE Dot(_, _)
Dot(p, d) == IF p = <<>> THEN 0 ELSE Head(p) * Head(d) + Dot(Tail(p), Tail(d))

\* step_ls(p, d): sd = sum(d^2)/sum(p*d), mg = sum(p*d)/sum(p^2)
step_ls(p, d) ==
    LET sd == Frac(Dot(d, d), Dot(p, d))
        mg == Frac(Dot(p, d), Dot(p, p))
    IN  IF FLt(sd, FMul(FInt(2), mg)) THEN mg ELSE FSub(sd, mg)

\* the divisors of step_ls(p, d) and of step_cor(p, d)
ls_divisors(p, d) == {Dot(p, d), Dot(p, p)}
cor_divisors(p, d) == {Dot(p, p) * Dot(d, d)}

\* step_cor(p, d) = sum(p*d)/sqrt(sum(p^2)*sum(d^2)), as its signed square
step_cor(p, d) ==
    LET pd == Dot(p, d)
    IN  Frac((IF pd < 0 THEN -1 ELSE 1) * pd * pd, Dot(p, p) * Dot(d, d))

\* step_safe; rho, the correlations and the result are signed squares,
\* a and b are the estimates themselves
step_safe(rho, a, b, a_cor, b_cor, eps) ==
    IF FLt(Sg(eps), a_cor) /\ FLt(Sg(eps), b_cor) THEN FMul(a, b)
    ELSE IF FLt(Sg(eps), a_cor) /\ FLe(b_cor, Sg(eps)) THEN Sg(a)
    ELSE IF FLe(a_cor, Sg(eps)) /\ FLt(Sg(eps), b_cor) THEN Sg(b)
    ELSE rho

FMin(a, b) == IF FLt(b, a) THEN b ELSE a
FMax(a, b) == IF FLt(a, b) THEN b ELSE a

\* A step size taken without the trust region.
ClampNone(rho_hat, hi, lo) == rho_hat

\* max(min(rho_hat, scale*rho), rho/scale)
Clamp(rho_hat, hi, lo) == FMax(FMin(rho_hat, hi), lo)

\* scale = 1 + C/(1.0*k**2)
Scale(k, C) == FAdd(One, Frac(C, k * k))

\* A guard that looks at the primal differences only.
DegeneratePrimal(dx, dxbar, du, duhat) ==
    Dot(dx, dx) = 0 \/ Dot(dxbar, dxbar) = 0

\* sum(dx**2) == 0 or sum(dxbar**2) == 0 or sum(du**2) == 0 or sum(duhat**2) == 0
Degenerate(dx, dxbar, du, duhat) ==
    Dot(dx, dx) = 0 \/ Dot(dxbar, dxbar) = 0 \/ Dot(du, du) = 0 \/ Dot(duhat, duhat) = 0

\* The divisors a call of step_spec divides by: none on the guarded return,
\* else those of the two estimates, of the two correlations and of scale.
step_spec_divisors(k, dx, dxbar, du, duhat) ==
    IF Degenerate(dx, dxbar, du, duhat)
    THEN {}
    ELSE ls_divisors(dx, duhat) \cup ls_divisors(dxbar, du)
            \cup cor_divisors(dx, duhat) \cup cor_divisors(dxbar, du) \cup {k * k}

\* step_spec(rho, k, dx, dxbar, du, duhat, eps, C) with rho and the result
\* held as signed squares
step_spec(rho, k, dx, dxbar, du, duhat, eps, C) ==
    IF Degenerate(dx, dxbar, du, duhat)
    THEN rho
    ELSE LET a_hat == step_ls(dx, duhat)
             b_hat == step_ls(dxbar, du)
             a_cor == step_cor(dx, duhat)
             b_cor == step_cor(dxbar, du)
             scale == Scale(k, C)
             rho_hat == step_safe(rho, a_hat, b_hat, a_cor, b_cor, eps)
         IN  Clamp(rho_hat, FMul(Sg(scale), rho), FDiv(rho, Sg(scale)))

(***************************************************************************)
(* Pull mode: consensus() and run_worker().                                *)
(***************************************************************************)
N == Len(p_list)
Workers == 1..N

\* kwargs.pop("rho_init", N*[1.0])
DefaultRho(n) == [i \in 1..n |-> One]

RECURSIVE SeqsUpTo(_, _)
SeqsUpTo(S, n) ==
    IF n = 0 THEN {<<>>}
    ELSE LET T == SeqsUpTo(S, n - 1)
         IN  T \cup {Append(t, e) : t \in {u \in T : Len(u) = n - 1}, e \in S}

\* Values of the variables of a problem after prox.solve(): numbers when the
\* status is optimal, None otherwise.
Solutions(keys, status) ==
    IF status = OPTIMAL THEN [keys -> Vals] ELSE {[k \in keys |-> None]}

ZeroMap(keys) == [k \in keys |-> Zero]

\* kwargs.pop(key, default); kwargs is a function on the keywords passed
NoKw == [k \in {} |-> 0]
KwPop(kwargs, key, default) == IF key \in DOMAIN kwargs THEN kwargs[key] ELSE default
DefaultTf == 2
DefaultEps == Frac(1, 5)
DefaultC == 10^10
spectral == KwPop(kw, "spectral", FALSE)
Tf == KwPop(kw, "Tf", DefaultTf)
eps == KwPop(kw, "eps", DefaultEps)
C == KwPop(kw, "C", DefaultC)

\* for key in v.keys(): the variables of a problem in a fixed order, and a
\* dict of scalars flattened and concatenated in that order
KeySeq == <<"x", "y">>
Flat(m) ==
    LET ks == SelectSeq(KeySeq, LAMBDA k : k \in DOMAIN m)
    IN  [j \in 1..Len(ks) |-> m[ks[j]]]

\* nelem = np.prod([np.prod(xvar.size) ...]) is 1 for scalar variables;
\* v_old = four np.zeros(nelem)
ZeroHist(keys) ==
    [x |-> <<Zero>>, xbar |-> <<Zero>>, u |-> <<Zero>>, uhat |-> <<Zero>>]

\* a - b of numpy arrays; an array of one element is broadcast
VSub(a, b) == [j \in 1..Len(a) |-> FSub(a[j], IF Len(b) = 1 THEN b[1] ELSE b[j])]
VNeg(a) == [j \in 1..Len(a) |-> FSub(Zero, a[j])]

\* The four difference vectors times the least common multiple of their
\* denominators: step_spec is unchanged when all four are scaled alike, and
\* its model takes vectors of integers.
LCM(a, b) == (a \div NZ(GCD(a, b))) * b
RECURSIVE DenLcm(_)
DenLcm(v) == IF v = <<>> THEN 1 ELSE LCM(Head(v).den, DenLcm(Tail(v)))
Times(v, l) == [j \in 1..Len(v) |-> v[j].num * (l \div v[j].den)]

\* np.sqrt: the largest r with r*r <= n, found by bisection
RECURSIVE Bisect(_, _, _)
Bisect(n, lo, hi) ==
    IF hi - lo <= 1 THEN lo
    ELSE LET mid == (lo + hi) \div 2
         IN  IF mid * mid <= n THEN Bisect(n, mid, hi) ELSE Bisect(n, lo, mid)
ISqrt(n) == Bisect(n, 0, IF n < 46340 THEN n + 1 ELSE 46340)

\* The float of a step size held as its signed square: exact when the
\* square is the square of a rational, else rounded down to a multiple of
\* 1/(SqrtGrid * den).
SqrtGrid == 8
Root(sq) ==
    LET a == ISqrt(sq.num)
        b == ISqrt(sq.den)
    IN  IF a * a = sq.num /\ b * b = sq.den THEN Frac(a, b)
        ELSE Frac(ISqrt(sq.num * sq.den * SqrtGrid * SqrtGrid), sq.den * SqrtGrid)

\* An update in the rounds whose index is a multiple of Tf.
AdaptRoundZero(i, tf) == i % tf = 0

\* i % Tf == 1
AdaptRound(i, tf) == i % tf = 1

\* An update in every round once spectral is set.
UpdateDueAlways(i) == spectral

\* if spectral and i % Tf == 1
UpdateDue(i) == spectral /\ AdaptRound(i, Tf)

InitRun(iters) ==
    /\ p_list \in SeqsUpTo(VarSets, MaxN) \ {<<>>}
    /\ max_iter \in iters
    /\ rho_supplied \in BOOLEAN
    /\ rho_init \in IF rho_supplied
                    THEN SeqsUpTo(Rhos, Len(p_list) + 1)
                    ELSE {DefaultRho(Len(p_list))}
    /\ cpc = "spawn" /\ ci = 0 /\ cj = 0
    /\ pipes = 0 /\ procs = <<>> /\ prox_res = <<>> /\ xbars = <<>>
    /\ outcome = "running" /\ result = <<>>
    /\ toCoord = [i \in 1..Len(p_list) |-> <<>>]
    /\ toWorker = [i \in 1..Len(p_list) |-> <<>>]
    /\ wpc = [i \in 1..Len(p_list) |-> "unborn"]
    /\ wrho = [i \in 1..Len(p_list) |-> One]
    /\ wstatus = [i \in 1..Len(p_list) |-> "none"]
    /\ wx = [i \in 1..Len(p_list) |-> [k \in p_list[i] |-> None]]
    /\ wxbar = [i \in 1..Len(p_list) |-> ZeroMap(p_list[i])]
    /\ wu = [i \in 1..Len(p_list) |-> ZeroMap(p_list[i])]
    /\ wlog = [i \in 1..Len(p_list) |-> <<>>]
    /\ nrecv = [i \in 1..Len(p_list) |-> 0]
    /\ sentlog = [i \in 1..Len(p_list) |-> <<>>]
    /\ v_old = [i \in 1..Len(p_list) |-> ZeroHist(p_list[i])]
    /\ calls = [i \in 1..Len(p_list) |-> <<>>]
    /\ udicts = <<>> /\ maplog = <<>>

InitPull == InitRun(0..MaxIter)

AvgIdle == avg_in = <<>> /\ avg_pc = "off" /\ avg_out = <<>>
StepIdle == st_rho = One /\ st_par = <<>> /\ st_n = 0 /\ st_call = <<>>
ConvIdle ==
    /\ sc_pc = "off" /\ sc_i = 0 /\ sc_den = <<>>
    /\ sc_x = <<>> /\ sc_xbar = <<>> /\ sc_u = <<>> /\ sc_xbars = <<>>

\* consensus(p_list, max_iter = .., rho_init = ..): no keyword is handed on,
\* run_worker takes spectral = False, Tf = 2, eps = 0.2
Init == InitPull /\ kw = NoKw /\ AvgIdle /\ StepIdle /\ ConvIdle

\* A loop whose index moves by two.
LoopNextSkip(i) ==
    IF i + 1 < max_iter
    THEN [pc |-> "gather", i |-> i + 2]
    ELSE [pc |-> "terminate", i |-> i]

\* for i in range(max_iter): the position after the body of round i, or
\* before the first round with i = -1
LoopNext(i) ==
    IF i + 1 < max_iter
    THEN [pc |-> "gather", i |-> i + 1]
    ELSE [pc |-> "terminate", i |-> i]

\* One iteration of the set-up loop: a Pipe(), then rho_init[i] (IndexError
\* when the list is too short), then the Process is created and started
\* and begins run_worker with prox_step(p, rho_init).
Spawn ==
    /\ cpc = "spawn" /\ ci < N
    /\ pipes' = pipes + 1
    /\ IF ci + 1 > Len(rho_init)
       THEN /\ outcome' = "IndexError"
            /\ cpc' = "done"
            /\ UNCHANGED <<ci, procs, wpc, wrho>>
       ELSE /\ procs' = Append(procs, "started")
            /\ wpc' = [wpc EXCEPT ![ci + 1] = "solve"]
            /\ wrho' = [wrho EXCEPT ![ci + 1] = rho_init[ci + 1]]
            /\ ci' = ci + 1
            /\ UNCHANGED <<cpc, outcome>>
    /\ UNCHANGED <<convVars, inputVars, cj, prox_res, xbars, result, chanVars,
                   wstatus, wx, wxbar, wu, histVars, avgVars, stepVars, adaptVars, mapVars>>

\* start = time(); enter the ADMM loop
StartLoop ==
    /\ cpc = "spawn" /\ ci = N
    /\ cpc' = LoopNext(-1).pc
    /\ ci' = LoopNext(-1).i
    /\ cj' = 1
    /\ UNCHANGED <<convVars, inputVars, pipes, procs, prox_res, xbars, outcome, result,
                   chanVars, workerVars, histVars, avgVars, stepVars, adaptVars, mapVars>>

\* A gather that stops one pipe short.
GatherNextEarly(j, n) ==
    IF j < n - 1 THEN [pc |-> "gather", j |-> j + 1] ELSE [pc |-> "average", j |-> 1]

\* The list comprehension over pipes: after pipe j is read, the next pipe,
\* or x_average once the last pipe has been read.
GatherNext(j, n) ==
    IF j < n THEN [pc |-> "gather", j |-> j + 1] ELSE [pc |-> "average", j |-> 1]

\* prox_res = [pipe.recv() for pipe in pipes]: one blocking recv
Gather ==
    /\ cpc = "gather"
    /\ toCoord[cj] # <<>>
    /\ prox_res' = (IF cj = 1 THEN <<>> ELSE prox_res) \o <<Head(toCoord[cj])>>
    /\ toCoord' = [toCoord EXCEPT ![cj] = Tail(@)]
    /\ nrecv' = [nrecv EXCEPT ![cj] = @ + 1]
    /\ cpc' = GatherNext(cj, N).pc
    /\ cj' = GatherNext(cj, N).j
    /\ UNCHANGED <<convVars, inputVars, ci, pipes, procs, xbars, outcome, result,
                   toWorker, workerVars, wlog, sentlog, avgVars, stepVars, adaptVars, mapVars>>

\* xbars = x_average(prox_res); the RuntimeError leaves consensus()
Average ==
    /\ cpc = "average"
    /\ LET r == x_average(prox_res)
       IN  IF r.raised
           THEN /\ outcome' = "RuntimeError"
                /\ cpc' = "done"
                /\ UNCHANGED xbars
           ELSE /\ xbars' = <<r.xbars>>
                /\ cpc' = "scatter"
                /\ UNCHANGED outcome
    /\ cj' = 1
    /\ UNCHANGED <<convVars, inputVars, ci, pipes, procs, prox_res, result, chanVars,
                   workerVars, histVars, avgVars, stepVars, adaptVars, mapVars>>

\* A scatter that reaches the first pipe only.
PipeSendFirst(chan, j, m) == IF j = 1 THEN [chan EXCEPT ![j] = Append(@, m)] ELSE chan

\* pipe.send(m) on pipe j
PipeSend(chan, j, m) == [chan EXCEPT ![j] = Append(@, m)]

\* for pipe in pipes: pipe.send((xbars, i))
Scatter ==
    /\ cpc = "scatter"
    /\ toWorker' = PipeSend(toWorker, cj, [xbars |-> xbars[1], i |-> ci])
    /\ sentlog' = [sentlog EXCEPT ![cj] = Append(@, [xbars |-> xbars[1], i |-> ci])]
    /\ IF cj < N
       THEN /\ cj' = cj + 1
            /\ UNCHANGED <<cpc, ci>>
       ELSE /\ cj' = 1
            /\ cpc' = LoopNext(ci).pc
            /\ ci' = LoopNext(ci).i
    /\ UNCHANGED <<convVars, inputVars, pipes, procs, prox_res, xbars, outcome, result,
                   toCoord, workerVars, wlog, nrecv, avgVars, stepVars, adaptVars, mapVars>>

\* A teardown that leaves the last process running.
TerminateNextShort(j, n) ==
    IF j < n - 1 THEN [pc |-> "terminate", j |-> j + 1] ELSE [pc |-> "return", j |-> 1]

\* [p.terminate() for p in procs]: after process j, the next one or the
\* return; a terminated process takes no further step
TerminateNext(j, n) ==
    IF j < n THEN [pc |-> "terminate", j |-> j + 1] ELSE [pc |-> "return", j |-> 1]

Terminate ==
    /\ cpc = "terminate"
    /\ procs' = [procs EXCEPT ![cj] = "terminated"]
    /\ cpc' = TerminateNext(cj, Len(procs)).pc
    /\ cj' = TerminateNext(cj, Len(procs)).j
    /\ UNCHANGED <<convVars, inputVars, ci, pipes, prox_res, xbars, outcome, result,
                   chanVars, workerVars, histVars, avgVars, stepVars, adaptVars, mapVars>>

\* The value of the return statement.
ReturnValue(xb) == [xbars |-> xb, solve_time |-> "end - start"]

\* return {"xbars": xbars, "solve_time": (end - start)}; xbars is unbound
\* when the loop body never ran
Return ==
    /\ cpc = "return"
    /\ cpc' = "done"
    /\ IF xbars = <<>>
       THEN outcome' = "UnboundLocalError" /\ UNCHANGED result
       ELSE outcome' = "returned" /\ result' = <<ReturnValue(xbars[1])>>
    /\ UNCHANGED <<convVars, inputVars, ci, cj, pipes, procs, prox_res, xbars,
                   chanVars, workerVars, histVars, avgVars, stepVars, adaptVars, mapVars>>

Alive(i) == i <= Len(procs) /\ procs[i] = "started"

RECURSIVE CountEv(_, _)
CountEv(log, ev) ==
    IF log = <<>> THEN 0
    ELSE CountEv(Tail(log), ev) + (IF Head(log).ev = ev THEN 1 ELSE 0)

\* A worker that solves again without waiting for the broadcast.
AfterSendNoWait == "solve"

\* Where run_worker blocks after pipe.send: the pipe.recv of the broadcast.
AfterSend == "recv"

\* prox.solve(*args, **kwargs) with any status and any values, then
\* pipe.send((prox.status, xvals)): the pipe buffers, the send does not
\* block, and the worker stops at the pipe.recv that follows
WorkerSolve(i) ==
    /\ Alive(i) /\ wpc[i] = "solve"
    /\ \E st \in Statuses : \E xv \in Solutions(p_list[i], st) :
          /\ wstatus' = [wstatus EXCEPT ![i] = st]
          /\ wx' = [wx EXCEPT ![i] = xv]
          /\ toCoord' = [toCoord EXCEPT ![i] = Append(@, [status |-> st, xvals |-> xv])]
    /\ wpc' = [wpc EXCEPT ![i] = AfterSend]
    /\ wlog' = [wlog EXCEPT ![i] =
                  @ \o <<[ev |-> "solve", r |-> CountEv(@, "solve")],
                         [ev |-> "send", r |-> CountEv(@, "send")]>>]
    /\ UNCHANGED <<convVars, inputVars, coordVars, toWorker, wrho, wxbar, wu,
                   nrecv, sentlog, avgVars, stepVars, adaptVars, mapVars>>

\* A dual moved by two steps in one round.
DualStepTwice(u, rho, x, xbar) == FAdd(u, FMul(FInt(2), FMul(rho, FSub(x, xbar))))

\* u + rho*(x - xbar)
DualStep(u, rho, x, xbar) == FAdd(u, FMul(rho, FSub(x, xbar)))

\* u_hat = u_old + rho*(xbar_old - v[key]["u"])
IntermediateDual(u_old, rho, xbar_old, u) == FAdd(u_old, FMul(rho, FSub(xbar_old, u)))

\* An update that collects nothing and keeps the retained vectors.
UpdateNothing(rho, i, x, xbar, u, uhat, old) ==
    [rho |-> rho, v_flat |-> old]

\* The step size update of run_worker in a round with spectral and
\* i % Tf == 1, from the worker's state after the loop over v.keys() has
\* assigned the new xbar and u: the collected vectors, the differences from
\* v_old, and rho.value = step_spec(rho.value, i, dx, dxbar, du, duhat, eps, C).
Update(rho, i, x, xbar, u, uhat, old) ==
    LET v_flat == [x |-> Flat(x), xbar |-> Flat(xbar), u |-> Flat(u), uhat |-> Flat(uhat)]
        dx == VSub(v_flat.x, old.x)
        dxbar == VSub(VNeg(v_flat.xbar), VNeg(old.xbar))
        du == VSub(v_flat.u, old.u)
        duhat == VSub(v_flat.uhat, old.uhat)
        l == DenLcm(dx \o dxbar \o du \o duhat)
    IN  [rho |-> Root(step_spec(Sg(rho), i, Times(dx, l), Times(dxbar, l),
                                Times(du, l), Times(duhat, l), eps, C)),
         v_flat |-> v_flat]

\* xbars, i = pipe.recv(), then for key in v.keys():
\* xbar := xbars[key]; u += rho*(x - xbar); u_hat.  u_old is the array the
\* Parameter holds, which += may have updated in place, or a copy of it.
\* Then, if spectral and i % Tf == 1, the step size update.
WorkerRecv(i) ==
    /\ Alive(i) /\ wpc[i] = "recv"
    /\ toWorker[i] # <<>>
    /\ LET m == Head(toWorker[i])
           xbar_old == wxbar[i]
           xbar == [k \in p_list[i] |-> m.xbars[k]]
           u == [k \in p_list[i] |-> DualStep(wu[i][k], wrho[i], wx[i][k], m.xbars[k])]
       IN  /\ p_list[i] \subseteq DOMAIN m.xbars
           /\ wxbar' = [wxbar EXCEPT ![i] = xbar]
           /\ wu' = [wu EXCEPT ![i] = u]
           /\ wlog' = [wlog EXCEPT ![i] = Append(@, [ev |-> "recv", r |-> m.i])]
           /\ IF UpdateDue(m.i)
              THEN \E u_old \in {wu[i], u} :
                      LET uhat == [k \in p_list[i] |->
                                      IntermediateDual(u_old[k], wrho[i], xbar_old[k], u[k])]
                          upd == Update(wrho[i], m.i, wx[i], xbar, u, uhat, v_old[i])
                      IN  /\ wrho' = [wrho EXCEPT ![i] = upd.rho]
                          /\ v_old' = [v_old EXCEPT ![i] = upd.v_flat]
                          /\ calls' = [calls EXCEPT ![i] =
                                          Append(@, [k |-> m.i, rho |-> wrho[i],
                                                     v_flat |-> upd.v_flat,
                                                     x |-> Flat(wx[i]),
                                                     xbars |-> m.xbars,
                                                     xbar_prev |-> Flat(xbar_old),
                                                     u_prev |-> Flat(wu[i])])]
              ELSE UNCHANGED <<wrho, adaptVars>>
    /\ toWorker' = [toWorker EXCEPT ![i] = Tail(@)]
    /\ wpc' = [wpc EXCEPT ![i] = "solve"]
    /\ UNCHANGED <<convVars, inputVars, coordVars, toCoord, wstatus, wx,
                   nrecv, sentlog, avgVars, stepVars, mapVars>>

Next ==
    \/ Spawn
    \/ StartLoop
    \/ Gather
    \/ Average
    \/ Scatter
    \/ Terminate
    \/ Return
    \/ \E i \in Workers : WorkerSolve(i)
    \/ \E i \in Workers : WorkerRecv(i)

Spec == Init /\ [][Next]_vars

(***************************************************************************)
(* SpecAdapt: the pull-mode run with the step size keywords handed on to   *)
(* run_worker: consensus(p_list, max_iter = .., rho_init = .., spectral =  *)
(* True, Tf = .., C = ..) next to the call without them, over one round    *)
(* more than Spec and with rho_init as long as p_list when supplied.       *)
(***************************************************************************)
InitAdapt ==
    /\ InitRun(1..MaxIter + 1)
    /\ Len(rho_init) = Len(p_list)
    /\ kw \in {NoKw} \cup {[spectral |-> TRUE, Tf |-> tf, C |-> c] :
                               tf \in 1..MaxTf, c \in Cs}
    /\ AvgIdle /\ StepIdle /\ ConvIdle

SpecAdapt == InitAdapt /\ [][Next]_vars

(***************************************************************************)
(* SpecAvg: x_average and the gather of consensus_map on one list of       *)
(* reports, each the reply of one worker in one round.                     *)
(***************************************************************************)
PullIdle ==
    /\ p_list = <<>> /\ max_iter = 0 /\ rho_init = <<>> /\ rho_supplied = FALSE
    /\ kw = NoKw
    /\ cpc = "off" /\ ci = 0 /\ cj = 0
    /\ pipes = 0 /\ procs = <<>> /\ prox_res = <<>> /\ xbars = <<>>
    /\ outcome = "off" /\ result = <<>>
    /\ toCoord = <<>> /\ toWorker = <<>>
    /\ wpc = <<>> /\ wrho = <<>> /\ wstatus = <<>> /\ wx = <<>>
    /\ wxbar = <<>> /\ wu = <<>>
    /\ wlog = <<>> /\ nrecv = <<>> /\ sentlog = <<>>
    /\ v_old = <<>> /\ calls = <<>>
    /\ udicts = <<>> /\ maplog = <<>>

\* One worker's reply: its status, the values of its variables and, in push
\* mode, its updated duals.
Replies ==
    UNION {{[status |-> st, xvals |-> xv, uvals |-> ZeroMap(ks)] :
                xv \in IF st = OPTIMAL THEN [ks -> AvgVals] ELSE {[k \in ks |-> None]}} :
           st \in Statuses, ks \in AvgVarSets}

InitAvg ==
    /\ avg_in \in SeqsUpTo(Replies, MaxReports) \ {<<>>}
    /\ avg_pc = "in"
    /\ avg_out = <<>>
    /\ PullIdle /\ StepIdle /\ ConvIdle

\* xbars = x_average(prox_res)
AvgPull ==
    /\ avg_pc = "in"
    /\ avg_pc' = "x_average"
    /\ avg_out' = <<x_average(avg_in)>>
    /\ UNCHANGED <<avg_in, convVars, inputVars, coordVars, chanVars, workerVars, histVars, stepVars,
                   adaptVars, mapVars>>

\* xbars, udicts = consensus_map(pipes, xbars, udicts), with xbars holding
\* every variable as in basic_test
AvgPush ==
    /\ avg_pc = "in"
    /\ avg_pc' = "consensus_map"
    /\ avg_out' = <<consensus_map_gather(avg_in, ZeroMap(Keys))>>
    /\ UNCHANGED <<avg_in, convVars, inputVars, coordVars, chanVars, workerVars, histVars, stepVars,
                   adaptVars, mapVars>>

NextAvg == AvgPull \/ AvgPush

SpecAvg == InitAvg /\ [][NextAvg]_vars

\* The replies that carry a value for key, their number and their sum.
RECURSIVE ReportSum(_, _)
ReportSum(res, key) ==
    IF res = <<>> THEN Zero
    ELSE FAdd(IF key \in DOMAIN Head(res).xvals THEN Head(res).xvals[key] ELSE Zero,
              ReportSum(Tail(res), key))

ReportCount(res, key) == Cardinality({n \in 1..Len(res) : key \in DOMAIN res[n].xvals})

AllOptimal(res) == \A n \in 1..Len(res) : res[n].status = OPTIMAL

\* C1: in x_average and in consensus_map, every key reported by k >= 1 of the
\* workers of a round comes out as the sum of the k reported values divided
\* by k.
C1_AveragingExact ==
    (avg_pc \in {"x_average", "consensus_map"} /\ AllOptimal(avg_in)) =>
        \A key \in Keys :
            ReportCount(avg_in, key) >= 1 =>
                /\ key \in DOMAIN avg_out[1].xbars
                /\ avg_out[1].xbars[key] =
                       FDiv(ReportSum(avg_in, key), FInt(ReportCount(avg_in, key)))

(***************************************************************************)
(* Properties of the pull-mode run (Spec).                                 *)
(***************************************************************************)
HasFailure(res) == \E n \in 1..Len(res) : res[n].status \in INF_OR_UNB

\* C2: once a report of round r with an infeasible or unbounded status has
\* been gathered, consensus() can only finish that gather and raise: the error
\* is the run-level RuntimeError, nothing was broadcast for round r or later,
\* no report of round r + 1 was read, and nothing is returned.
C2_AbortAtRound ==
    /\ cpc = "scatter" => ~HasFailure(prox_res)
    /\ HasFailure(prox_res) =>
          \/ cpc \in {"gather", "average"}
          \/ /\ cpc = "done" /\ outcome = "RuntimeError"
             /\ result = <<>>
             /\ \A j \in Workers :
                   /\ Len(sentlog[j]) = ci
                   /\ \A n \in 1..Len(sentlog[j]) : sentlog[j][n].i < ci
                   /\ nrecv[j] = ci + 1
    /\ outcome = "RuntimeError" => HasFailure(prox_res)

C2_Witness ==
    /\ outcome = "RuntimeError" /\ ci = 1 /\ N = 2
    /\ prox_res[1].status = OPTIMAL /\ prox_res[2].status = "unbounded"

\* C3: when consensus() has raised the infeasible-or-unbounded error, every
\* spawned worker process has been terminated.
C3_AbortTearsDown ==
    outcome = "RuntimeError" =>
        /\ Len(procs) = N
        /\ \A i \in 1..Len(procs) : procs[i] = "terminated"

\* C4: a call of consensus() ends by returning the record {xbars, solve_time}
\* or by raising the infeasible-or-unbounded RuntimeError, nothing else.
C4_TwoOutcomes ==
    /\ outcome \in {"running", "returned", "RuntimeError"}
    /\ cpc = "done" => outcome \in {"returned", "RuntimeError"}
    /\ outcome = "returned" => result # <<>>

\* C5: the average of round r is computed, and the broadcast of round r is
\* sent to any worker, only when the round-r report of every one of the N
\* workers has been read.
C5_FullBarrier ==
    /\ cpc \in {"average", "scatter"} =>
          /\ Len(prox_res) = N
          /\ \A w \in Workers : nrecv[w] = ci + 1
    /\ \A j \in Workers : \A n \in 1..Len(sentlog[j]) :
          \A w \in Workers : nrecv[w] >= sentlog[j][n].i + 1

C5_Witness ==
    /\ N = 2 /\ cpc = "scatter" /\ ci = 1 /\ cj = 2
    /\ Len(wlog[1]) = 5 /\ Len(wlog[2]) = 5

\* The rounds of the events ev of a worker's log, in order.
RECURSIVE Rounds(_, _)
Rounds(log, ev) ==
    IF log = <<>> THEN <<>>
    ELSE (IF Head(log).ev = ev THEN <<Head(log).r>> ELSE <<>>) \o Rounds(Tail(log), ev)

Counting(sq) == \A n \in 1..Len(sq) : sq[n] = n - 1

\* C6: the round index of the broadcasts starts at 0 and grows by one per
\* cycle: the n-th broadcast written to every pipe and the n-th broadcast read
\* by every worker carry n - 1, and while round i is under way i cycles are
\* complete.
C6_RoundIndex ==
    /\ \A j \in Workers :
          /\ \A n \in 1..Len(sentlog[j]) : sentlog[j][n].i = n - 1
          /\ Counting(Rounds(wlog[j], "recv"))
    /\ cpc \in {"gather", "average"} => \A j \in Workers : Len(sentlog[j]) = ci
    /\ cpc = "scatter" =>
          \A j \in Workers : Len(sentlog[j]) = (IF j < cj THEN ci + 1 ELSE ci)

C6_Witness ==
    /\ N = 2
    /\ Rounds(wlog[1], "recv") = <<0, 1>>
    /\ Rounds(wlog[2], "recv") = <<0, 1>>

\* C7: the events of every worker are solve_0, send_0, recv_0, solve_1,
\* send_1, recv_1, ... in this order, whatever the interleaving.
C7_WorkerOrder ==
    \A i \in Workers : \A n \in 1..Len(wlog[i]) :
        /\ wlog[i][n].ev = <<"solve", "send", "recv">>[((n - 1) % 3) + 1]
        /\ wlog[i][n].r = (n - 1) \div 3

C7_Witness ==
    \E i \in Workers : Len(wlog[i]) = 8 /\ wlog[i][7].ev = "solve" /\ wlog[i][7].r = 2

\* C8: when consensus() has returned, all N workers are terminated and the
\* xbars returned is the map of the last broadcast, of index max_iter - 1,
\* whatever reports are still unread in the pipes.
C8_ReturnLastBroadcast ==
    outcome = "returned" =>
        /\ max_iter >= 1
        /\ Len(procs) = N
        /\ \A i \in Workers :
              /\ procs[i] = "terminated"
              /\ Len(sentlog[i]) = max_iter
              /\ sentlog[i][max_iter].i = max_iter - 1
              /\ result[1].xbars = sentlog[i][max_iter].xbars

C8_Witness ==
    /\ outcome = "returned" /\ N = 2 /\ max_iter = 2
    /\ toCoord[1] # <<>>
    /\ sentlog[1][1].xbars # sentlog[1][2].xbars

\* C9: a rho_init whose length differs from the number of problems is
\* rejected before any worker is started; without rho_init every worker gets
\* the same default step size.
C9_ValidatedBeforeSpawn ==
    /\ (rho_supplied /\ Len(rho_init) # N) =>
          /\ procs = <<>>
          /\ outcome # "returned"
    /\ ~rho_supplied => \A i \in Workers : wrho[i] = One

(***************************************************************************)
(* SpecStep: step_spec iterated from a step size, eps and C drawn at Init. *)
(***************************************************************************)
InitStep ==
    /\ st_rho \in {Sg(r) : r \in StepRhos}
    /\ st_par \in {<<[eps |-> e, C |-> c]>> : e \in Epss, c \in Cs}
    /\ st_n = 0
    /\ st_call = <<>>
    /\ PullIdle /\ AvgIdle /\ ConvIdle

\* rho.value = step_spec(rho.value, i, dx, dxbar, du, duhat, eps, C)
Adapt ==
    /\ st_n < MaxSteps
    /\ \E k \in 1..MaxK :
          \E dx \in Vecs, dxbar \in Vecs, du \in Vecs, duhat \in Vecs :
             /\ st_rho' = step_spec(st_rho, k, dx, dxbar, du, duhat,
                                    st_par[1].eps, st_par[1].C)
             /\ st_call' = <<[rho |-> st_rho, k |-> k]>>
    /\ st_n' = st_n + 1
    /\ UNCHANGED <<st_par, convVars, inputVars, coordVars, chanVars, workerVars, histVars, avgVars,
                   adaptVars, mapVars>>

NextStep == Adapt

SpecStep == InitStep /\ [][NextStep]_vars

\* C10: the step size returned by step_spec for rho > 0 and k >= 1 lies in
\* [rho/scale, rho*scale] with scale = 1 + C/k^2, so rho stays strictly
\* positive over any sequence of adaptations.  (Squares on both sides.)
C10_StepInTrustRegion ==
    /\ FLt(Zero, st_rho)
    /\ st_call # <<>> =>
          LET c == st_call[1]
              cc == st_par[1].C
              s2 == Frac((c.k * c.k + cc) * (c.k * c.k + cc), c.k * c.k * c.k * c.k)
          IN  /\ FLe(FDiv(c.rho, s2), st_rho)
              /\ FLe(st_rho, FMul(c.rho, s2))

C10_Witness ==
    /\ st_n = 2 /\ st_call # <<>>
    /\ st_par[1].C = 3 /\ st_call[1].k = 2
    /\ st_rho = FMul(st_call[1].rho, Frac(49, 16))
    /\ st_call[1].rho # One

(***************************************************************************)
(* SpecCall: one call of step_spec on arguments drawn at Init, k = 0       *)
(* included.  st_call holds the arguments and, after the call, the         *)
(* divisors the call divided by.  Dividing the float C by 1.0*k**2 = 0.0   *)
(* raises ZeroDivisionError, which leaves rho as it was.                   *)
(***************************************************************************)
InitCall ==
    /\ st_rho \in {Sg(r) : r \in StepRhos}
    /\ st_par \in {<<[eps |-> e, C |-> c]>> : e \in Epss, c \in Cs}
    /\ st_n = 0
    /\ st_call \in {<<[rho |-> st_rho, k |-> k, dx |-> dx, dxbar |-> dxbar,
                        du |-> du, duhat |-> duhat]>> :
                        k \in 0..MaxK, dx \in Vecs, dxbar \in Vecs,
                        du \in Vecs, duhat \in Vecs}
    /\ PullIdle /\ AvgIdle /\ ConvIdle

Call ==
    /\ st_n = 0
    /\ LET c == st_call[1]
           divs == step_spec_divisors(c.k, c.dx, c.dxbar, c.du, c.duhat)
           raised == c.k = 0 /\ divs # {}
       IN  /\ st_rho' = IF raised THEN st_rho
                        ELSE step_spec(st_rho, c.k, c.dx, c.dxbar, c.du, c.duhat,
                                       st_par[1].eps, st_par[1].C)
           /\ st_call' = <<c, [divs |-> divs, raised |-> raised]>>
    /\ st_n' = 1
    /\ UNCHANGED <<st_par, convVars, inputVars, coordVars, chanVars, workerVars, histVars, avgVars,
                   adaptVars, mapVars>>

NextCall == Call

SpecCall == InitCall /\ [][NextCall]_vars

IsZero(v) == \A j \in 1..Len(v) : v[j] = 0

\* C11: when one of dx, dxbar, du, duhat is the zero vector, step_spec
\* returns rho unchanged whatever k, the other vectors, eps and C are, and
\* divides by nothing: neither estimate and neither correlation is evaluated.
C11_DegenerateGuard ==
    st_n = 1 =>
       LET c == st_call[1]
       IN  (IsZero(c.dx) \/ IsZero(c.dxbar) \/ IsZero(c.du) \/ IsZero(c.duhat)) =>
              /\ st_rho = c.rho
              /\ st_call[2].divs = {}
              /\ ~st_call[2].raised

C11_Witness ==
    /\ st_n = 1
    /\ st_call[1].k = 0
    /\ st_call[1].dx = <<1, 2>> /\ st_call[1].dxbar = <<2, -1>>
    /\ st_call[1].du = <<0, 0>> /\ st_call[1].duhat = <<1, 0>>
    /\ st_rho = st_call[1].rho /\ st_call[2].divs = {}

(***************************************************************************)
(* SpecMap, push mode: a caller as in basic_test starts N worker_map        *)
(* processes and calls consensus_map(pipes, xbars, udicts) max_iter times  *)
(* over the same pipes, each call with the xbars and udicts the last call  *)
(* returned.  The udicts of the first call is the caller's own list; a     *)
(* list shorter than pipes makes the scatter raise IndexError, and the     *)
(* caller then calls again with a list of N dicts.  ci counts the calls,   *)
(* sentlog[i] holds what was sent on pipe i, maplog[i] what was read.      *)
(***************************************************************************)
MaxCalls == 3

InitMap ==
    /\ p_list \in SeqsUpTo(VarSets, MaxN) \ {<<>>}
    /\ max_iter \in 1..MaxCalls
    /\ rho_supplied = TRUE
    /\ rho_init \in [1..Len(p_list) -> Rhos \cup {One}]
    /\ kw = NoKw
    /\ cpc = "map_call" /\ ci = 0 /\ cj = 0
    /\ pipes = Len(p_list)
    /\ procs = [i \in 1..Len(p_list) |-> "started"]
    /\ prox_res = <<>>
    /\ xbars = <<ZeroMap(Keys)>>
    /\ udicts \in SeqsUpTo({ZeroMap(Keys)}, Len(p_list))
    /\ outcome = "running" /\ result = <<>>
    /\ toCoord = [i \in 1..Len(p_list) |-> <<>>]
    /\ toWorker = [i \in 1..Len(p_list) |-> <<>>]
    /\ wpc = [i \in 1..Len(p_list) |-> "map_recv"]
    /\ wrho = rho_init
    /\ wstatus = [i \in 1..Len(p_list) |-> "none"]
    /\ wx = [i \in 1..Len(p_list) |-> [k \in p_list[i] |-> None]]
    /\ wxbar = [i \in 1..Len(p_list) |-> ZeroMap(p_list[i])]
    /\ wu = [i \in 1..Len(p_list) |-> ZeroMap(p_list[i])]
    /\ wlog = [i \in 1..Len(p_list) |-> <<>>]
    /\ nrecv = [i \in 1..Len(p_list) |-> 0]
    /\ sentlog = [i \in 1..Len(p_list) |-> <<>>]
    /\ maplog = [i \in 1..Len(p_list) |-> <<>>]
    /\ v_old = <<>> /\ calls = <<>>
    /\ AvgIdle /\ StepIdle /\ ConvIdle

\* for i in range(MAX_ITER): xbars, udicts = consensus_map(pipes, xbars, udicts)
MapCall ==
    /\ cpc = "map_call" /\ ci < max_iter
    /\ ci' = ci + 1
    /\ cj' = 0
    /\ cpc' = "map_scatter"
    /\ prox_res' = <<>>
    /\ udicts' = IF outcome \in {"IndexError", "RuntimeError"}
                 THEN [i \in 1..N |-> ZeroMap(Keys)]
                 ELSE udicts
    /\ UNCHANGED <<convVars, inputVars, pipes, procs, xbars, outcome, result, chanVars,
                   workerVars, histVars, avgVars, stepVars, adaptVars, maplog>>

\* A scatter that hands every worker the dual of its neighbour.
ScatterDualNext(uds, i) == uds[(i % Len(uds)) + 1]

\* udicts[i] of pipes[i].send((xbars, udicts[i]))
ScatterDual(uds, i) == uds[i]

\* for i in range(N): pipes[i].send((xbars, udicts[i])), one pipe a step;
\* udicts[i] raises IndexError on a short list, after the sends before it
MapScatter ==
    /\ cpc = "map_scatter" /\ cj < N
    /\ IF cj + 1 > Len(udicts)
       THEN /\ outcome' = "IndexError"
            /\ cpc' = "map_call"
            /\ UNCHANGED <<cj, toWorker, sentlog>>
       ELSE LET m == [xbars |-> xbars[1], uvals |-> ScatterDual(udicts, cj + 1)]
            IN  /\ toWorker' = [toWorker EXCEPT ![cj + 1] = Append(@, m)]
                /\ sentlog' = [sentlog EXCEPT ![cj + 1] =
                                  Append(@, [call |-> ci, xbars |-> m.xbars, uvals |-> m.uvals])]
                /\ cj' = IF cj + 1 = N THEN 0 ELSE cj + 1
                /\ cpc' = IF cj + 1 = N THEN "map_gather" ELSE cpc
                /\ UNCHANGED outcome
    /\ UNCHANGED <<convVars, inputVars, ci, pipes, procs, prox_res, xbars, result, toCoord,
                   workerVars, wlog, nrecv, avgVars, stepVars, adaptVars, mapVars>>

\* for i in range(N): status, xvals, uvals = pipes[i].recv(), one pipe a
\* step, the raise on a status in INF_OR_UNB, the sum and udicts_n; after
\* the last pipe the division and the return into the caller's xbars, udicts
MapGather ==
    /\ cpc = "map_gather" /\ cj < N
    /\ toCoord[cj + 1] # <<>>
    /\ LET r == Head(toCoord[cj + 1])
           res == Append(prox_res, r)
           g == consensus_map_gather(res, xbars[1])
       IN  /\ maplog' = [maplog EXCEPT ![cj + 1] =
                            Append(@, [call |-> ci, status |-> r.status,
                                       xvals |-> r.xvals, uvals |-> r.uvals])]
           /\ IF r.status \in INF_OR_UNB
              THEN /\ outcome' = "RuntimeError"
                   /\ cpc' = "map_call"
                   /\ UNCHANGED <<cj, prox_res, xbars, udicts>>
              ELSE IF cj + 1 < N
              THEN /\ cj' = cj + 1
                   /\ prox_res' = res
                   /\ UNCHANGED <<cpc, outcome, xbars, udicts>>
              ELSE /\ xbars' = <<g.xbars>>
                   /\ udicts' = g.udicts
                   /\ outcome' = "returned"
                   /\ cpc' = "map_call"
                   /\ prox_res' = res
                   /\ UNCHANGED cj
    /\ toCoord' = [toCoord EXCEPT ![cj + 1] = Tail(@)]
    /\ UNCHANGED <<convVars, inputVars, ci, pipes, procs, result, toWorker,
                   workerVars, histVars, avgVars, stepVars, adaptVars>>

\* [p.terminate() for p in procs] after the last call
MapTerminate ==
    /\ cpc = "map_call" /\ ci = max_iter
    /\ cpc' = "done"
    /\ procs' = [i \in 1..N |-> "terminated"]
    /\ wpc' = [i \in 1..N |-> "terminated"]
    /\ UNCHANGED <<convVars, inputVars, ci, cj, pipes, prox_res, xbars, outcome, result,
                   chanVars, wrho, wstatus, wx, wxbar, wu, histVars,
                   avgVars, stepVars, adaptVars, mapVars>>

\* One turn of the loop of worker_map: xbars, uvals = pipe.recv(); xbar and
\* u are set; prox.solve with any status and values;
\* uvals[key] += rho.value*(x - xbars[key]); pipe.send((status, xvals,
\* uvals)).  After a failed solve x.value is None and the += raises
\* TypeError: the process ends and sends nothing.
WorkerMap(i) ==
    /\ Alive(i) /\ wpc[i] = "map_recv"
    /\ toWorker[i] # <<>>
    /\ LET m == Head(toWorker[i])
       IN  /\ p_list[i] \subseteq DOMAIN m.xbars \cap DOMAIN m.uvals
           /\ wxbar' = [wxbar EXCEPT ![i] = [k \in p_list[i] |-> m.xbars[k]]]
           /\ wu' = [wu EXCEPT ![i] = [k \in p_list[i] |-> m.uvals[k]]]
           /\ \E st \in Statuses : \E xv \in Solutions(p_list[i], st) :
                 /\ wstatus' = [wstatus EXCEPT ![i] = st]
                 /\ wx' = [wx EXCEPT ![i] = xv]
                 /\ IF st = OPTIMAL
                    THEN LET uvals == [k \in DOMAIN m.uvals |->
                                         IF k \in p_list[i]
                                         THEN DualStep(m.uvals[k], wrho[i], xv[k], m.xbars[k])
                                         ELSE m.uvals[k]]
                         IN  /\ toCoord' = [toCoord EXCEPT ![i] =
                                               Append(@, [status |-> st, xvals |-> xv,
                                                          uvals |-> uvals])]
                             /\ UNCHANGED wpc
                    ELSE /\ wpc' = [wpc EXCEPT ![i] = "TypeError"]
                         /\ UNCHANGED toCoord
           /\ wlog' = [wlog EXCEPT ![i] = Append(@, [ev |-> "map", r |-> Len(@)])]
    /\ toWorker' = [toWorker EXCEPT ![i] = Tail(@)]
    /\ UNCHANGED <<convVars, inputVars, coordVars, wrho, nrecv, sentlog,
                   avgVars, stepVars, adaptVars, mapVars>>

NextMap ==
    \/ MapCall
    \/ MapScatter
    \/ MapGather
    \/ MapTerminate
    \/ \E i \in Workers : WorkerMap(i)

SpecMap == InitMap /\ [][NextMap]_vars

(***************************************************************************)
(* Properties of the push-mode run (SpecMap).  Pipes are first in first    *)
(* out: the n-th reply read on pipe i is the n-th reply worker i sent, its *)
(* answer to the n-th message sent on pipe i.                              *)
(***************************************************************************)
\* C12: duals stay with their worker.  The dual read on pipe i is
\* u + rho_i*(x - xbar) for the x worker i reported and the u and xbar sent
\* to worker i in the message it answers; after a call that returned,
\* udicts[i] is the dual read on pipe i in that call; and the dual sent to
\* worker i is the caller's udicts[i]: after a call that returned, the dual
\* read back from worker i and from no other worker.
C12_DualsPerWorker ==
    \A i \in DOMAIN maplog :
       /\ \A n \in 1..Len(maplog[i]) :
             LET e == maplog[i][n]
                 q == sentlog[i][n]
             IN  e.status = OPTIMAL =>
                    \A k \in p_list[i] :
                       e.uvals[k] = FAdd(q.uvals[k],
                                         FMul(rho_init[i], FSub(e.xvals[k], q.xbars[k])))
       /\ (cpc = "map_call" /\ outcome = "returned") =>
             /\ Len(udicts) = N
             /\ udicts[i] = maplog[i][Len(maplog[i])].uvals
       /\ \A n \in 2..Len(sentlog[i]) :
             (\E c \in 1..Len(maplog[i]) :
                 /\ maplog[i][c].call = sentlog[i][n].call - 1
                 /\ \A j \in DOMAIN maplog :
                       \E d \in 1..Len(maplog[j]) :
                          maplog[j][d].call = sentlog[i][n].call - 1
                             /\ maplog[j][d].status = OPTIMAL)
             => \E c \in 1..Len(maplog[i]) :
                   /\ maplog[i][c].call = sentlog[i][n].call - 1
                   /\ sentlog[i][n].uvals = maplog[i][c].uvals

C12_Witness ==
    /\ N = 2 /\ ci = 2 /\ cpc = "map_call" /\ outcome = "returned"
    /\ Len(maplog[1]) = 2 /\ Len(maplog[2]) = 2
    /\ udicts[1] # udicts[2]
    /\ udicts[1]["x"] # Zero /\ udicts[2]["x"] # Zero
    /\ sentlog[1][2].uvals # sentlog[2][2].uvals

\* C17 (push mode): over any sequence of consensus_map calls on the same
\* pipes, a call after one that raised included, the reply a call reads on
\* pipe i answers the message that same call sent on pipe i.
C17_NoStaleReply ==
    \A i \in DOMAIN maplog :
       \A n \in 1..Len(maplog[i]) : maplog[i][n].call = sentlog[i][n].call

\* C18: every pipe holds at most one undelivered message in each direction.
C18_ChannelOccupancy ==
    /\ \A i \in DOMAIN toCoord : Len(toCoord[i]) <= 1
    /\ \A i \in DOMAIN toWorker : Len(toWorker[i]) <= 1

(***************************************************************************)
(* SpecModes: the runs of SpecAdapt and the runs of SpecMap.               *)
(***************************************************************************)
InitModes == InitAdapt \/ InitMap

Received(i) == i \in Workers /\ CountEv(wlog'[i], "recv") = CountEv(wlog[i], "recv") + 1

NextModes == Next \/ NextMap

SpecModes == InitModes /\ [][NextModes]_vars

\* C15: a worker's step size is rho_init[i] from its start; it changes only
\* in a run_worker with spectral set, in the step that ends a round whose
\* received index i has i % Tf = 1.  In every other round, without
\* spectral, and in worker_map always, it keeps its value, so a worker
\* that has seen no such round still has rho_init[i].
C15_StepSizeCadence ==
    /\ [][\A i \in DOMAIN wrho :
             (wpc[i] # "unborn" /\ wrho'[i] # wrho[i]) =>
                /\ spectral
                /\ wpc[i] = "recv" /\ Received(i)
                /\ toWorker[i] # <<>>
                /\ Head(toWorker[i]).i % Tf = 1]_vars
    /\ [](\A i \in DOMAIN wrho :
             (/\ wpc[i] # "unborn"
              /\ \A n \in 1..Len(wlog[i]) :
                    wlog[i][n].ev = "recv" => ~(spectral /\ wlog[i][n].r % Tf = 1))
             => wrho[i] = rho_init[i])

\* a worker of run_worker past an update round with a new step size that
\* it kept through the round after it
C15_Witness ==
    \E i \in DOMAIN wrho :
       /\ spectral /\ Tf = 2
       /\ CountEv(wlog[i], "recv") = 3
       /\ wrho[i] # rho_init[i]
       /\ Len(calls[i]) = 1

(***************************************************************************)
(* Properties of the pull-mode run with the step size keywords (SpecAdapt).*)
(***************************************************************************)
\* C14: a worker's dual is zero until its first broadcast and changes in
\* one kind of step only, the receive of a broadcast, once per receive and
\* so once per round and before the next solve: there xbar becomes the
\* received average and u becomes u + rho*(x - xbar) with that xbar and
\* the step size the round was solved with.
C14_DualOncePerRound ==
    /\ [](\A i \in DOMAIN wu :
             CountEv(wlog[i], "recv") = 0 => wu[i] = ZeroMap(p_list[i]))
    /\ [][\A i \in DOMAIN wu :
             IF Received(i)
             THEN /\ toWorker[i] # <<>>
                  /\ wpc[i] = "recv" /\ wpc'[i] = "solve"
                  /\ \A k \in p_list[i] :
                        LET xb == Head(toWorker[i]).xbars[k]
                        IN  /\ wxbar'[i][k] = xb
                            /\ wu'[i][k] = FAdd(wu[i][k], FMul(wrho[i], FSub(wx[i][k], xb)))
             ELSE wu'[i] = wu[i]]_vars

C14_Witness ==
    \E i \in DOMAIN wu :
       /\ CountEv(wlog[i], "recv") = 3
       /\ wrho[i] # rho_init[i] /\ wrho[i].den > 1
       /\ wu[i]["x"].den > 1

\* C16 as stated: on an update round the collected xbar is the average the
\* worker held before this round's broadcast, the collected u the dual
\* before this round's dual step, x the current solution, and v_old becomes
\* the collected vectors.
C16_CollectedBeforeOverwrite ==
    \A i \in DOMAIN calls :
       /\ \A n \in 1..Len(calls[i]) :
             /\ calls[i][n].v_flat.x = calls[i][n].x
             /\ calls[i][n].v_flat.xbar = calls[i][n].xbar_prev
             /\ calls[i][n].v_flat.u = calls[i][n].u_prev
       /\ calls[i] # <<>> => v_old[i] = calls[i][Len(calls[i])].v_flat

\* C16 amended: on an update round the vectors are collected after the
\* worker's state took the round's values: the collected xbar is the
\* average just received, the collected u the dual just updated with it,
\* x the current solution, and v_old becomes the collected vectors.
C16_CollectedAfterOverwrite ==
    \A i \in DOMAIN calls :
       /\ \A n \in 1..Len(calls[i]) :
             LET c == calls[i][n]
                 xb == Flat([k \in p_list[i] |-> c.xbars[k]])
             IN  /\ c.v_flat.x = c.x
                 /\ c.v_flat.xbar = xb
                 /\ c.v_flat.u = [j \in 1..Len(c.x) |->
                                    FAdd(c.u_prev[j], FMul(c.rho, FSub(c.x[j], xb[j])))]
       /\ calls[i] # <<>> => v_old[i] = calls[i][Len(calls[i])].v_flat

C16_Witness ==
    \E i \in DOMAIN calls :
       /\ Len(calls[i]) = 1
       /\ calls[i][1].xbar_prev # calls[i][1].v_flat.xbar
       /\ calls[i][1].u_prev # calls[i][1].v_flat.u
       /\ v_old[i] = calls[i][1].v_flat

\* C20: every call of step_spec made by run_worker has k = i >= 1 with
\* i % Tf = 1, for every Tf >= 1; with Tf = 1 there is no call at all.
C20_NeverIterationZero ==
    \A i \in DOMAIN calls :
       /\ \A n \in 1..Len(calls[i]) :
             /\ calls[i][n].k >= 1
             /\ calls[i][n].k % Tf = 1
             /\ \E e \in 1..Len(wlog[i]) : wlog[i][e] = [ev |-> "recv", r |-> calls[i][n].k]
       /\ Tf = 1 => calls[i] = <<>>

C20_Witness ==
    \E i \in DOMAIN calls :
       /\ Tf = 2 /\ Len(calls[i]) = 1 /\ calls[i][1].k = 1
       /\ CountEv(wlog[i], "recv") = 2

(***************************************************************************)
(* SpecLive: Spec under fair scheduling.  The coordinator process and      *)
(* every worker process keep running while they have a step to take: a     *)
(* solve returns, and a recv returns once its pipe holds a message.        *)
(***************************************************************************)
CoordStep ==
    Spawn \/ StartLoop \/ Gather \/ Average \/ Scatter \/ Terminate \/ Return

\* The pipe.recv() of worker i returns: in a run these are the steps of
\* WorkerRecv(i), enabled in the same states.
RecvReturns(i) ==
    /\ Alive(i) /\ wpc[i] = "recv"
    /\ toWorker[i] # <<>>
    /\ p_list[i] \subseteq DOMAIN Head(toWorker[i]).xbars
    /\ toWorker' = [toWorker EXCEPT ![i] = Tail(@)]
    /\ wpc' = [wpc EXCEPT ![i] = "solve"]

Fairness ==
    /\ WF_vars(CoordStep)
    /\ \A i \in 1..MaxN : WF_vars(WorkerSolve(i)) /\ WF_<<wpc, toWorker>>(RecvReturns(i))

SpecLive == Init /\ [][Next]_vars /\ Fairness

AllBlocked ==
    /\ cpc = "gather" /\ toCoord[cj] = <<>>
    /\ \A i \in Workers : wpc[i] = "recv" /\ toWorker[i] = <<>>

NoFailure == \A i \in DOMAIN wstatus : wstatus[i] \notin INF_OR_UNB

Completed ==
    /\ outcome = "returned"
    /\ \A j \in Workers : nrecv[j] = max_iter /\ Len(sentlog[j]) = max_iter

\* C19: under fair scheduling a call of consensus() with max_iter >= 1 and
\* a step size for each of its N workers, in which no worker reports
\* infeasible or unbounded, eventually returns; it returns only after
\* exactly max_iter rounds, each a full gather and a full scatter; and in
\* no reachable state are the coordinator and all workers blocked on a recv.
C19_Progress ==
    /\ ((max_iter >= 1 /\ Len(rho_init) = N) => <>(Completed \/ ~NoFailure))
    /\ [](outcome = "returned" => Completed)
    /\ []~AllBlocked

C19_Witness ==
    /\ N = 2 /\ max_iter = 2 /\ rho_supplied
    /\ Completed /\ NoFailure
    /\ \A i \in Workers : procs[i] = "terminated"

(***************************************************************************)
(* SpecRun: consensus() with max_iter = MaxRounds on the problems          *)
(* minimize (x - c)^2, c in ScCenters, sharing the variable x.  The values *)
(* outgrow the machine integers, so each is held as an integer of Limbs    *)
(* digits in base Base (least significant first, the sign carried by the   *)
(* last digit), and x, xbar, u of all workers are numerators over the      *)
(* one denominator sc_den.                                                 *)
(***************************************************************************)
Base == 10000
Limbs == 14
MaxRounds == 50

Digits == 1..Limbs

\* carries propagated upwards; every digit but the last ends in 0..Base-1
Norm(a) ==
    LET carry[k \in 0..Limbs] ==
            IF k = 0 THEN 0 ELSE (a[k] + carry[k - 1]) \div Base
    IN  [k \in Digits |->
            IF k = Limbs THEN a[k] + carry[k - 1]
            ELSE (a[k] + carry[k - 1]) % Base]

BInt(n) == Norm([k \in Digits |-> IF k = 1 THEN n ELSE 0])
BAdd(a, b) == Norm([k \in Digits |-> a[k] + b[k]])
BScale(c, a) == Norm([k \in Digits |-> c * a[k]])
BSub(a, b) == BAdd(a, BScale(-1, b))
BNeg(a) == a[Limbs] < 0
BAbs(a) == IF BNeg(a) THEN BScale(-1, a) ELSE a
BLe(a, b) == ~BNeg(BSub(b, a))

RECURSIVE BSum(_)
BSum(q) == IF q = <<>> THEN BInt(0) ELSE BAdd(Head(q), BSum(Tail(q)))

RECURSIVE LcmAll(_)
LcmAll(q) == IF q = <<>> THEN 1 ELSE LCM(Head(q), LcmAll(Tail(q)))

\* f_k(x) = (x - ScCenters[k])^2, and the step sizes consensus() defaults to
ScCenters == <<1, 5>>
ScWorkers == 1..Len(ScCenters)
ScRho == [k \in ScWorkers |-> One]

\* prox.solve(): the minimizer of (x - c)^2 + (rho/2)*(x - xbar - u/rho)^2
\* is x = (2c + rho*xbar + u) / (2 + rho); with rho = p/q that is
\* (2cq*den + p*xbar + q*u) / ((2q + p)*den) on the numerators.
ProxDen(k) == 2 * ScRho[k].den + ScRho[k].num
ProxNum(k, den, xbar, u) ==
    BAdd(BScale(2 * ScCenters[k] * ScRho[k].den, den),
         BAdd(BScale(ScRho[k].num, xbar), BScale(ScRho[k].den, u)))

ScInit ==
    /\ sc_pc = "solve" /\ sc_i = 0
    /\ sc_den = BInt(1)
    /\ sc_x = [k \in ScWorkers |-> BInt(0)]
    /\ sc_xbar = [k \in ScWorkers |-> BInt(0)]
    /\ sc_u = [k \in ScWorkers |-> BInt(0)]
    /\ sc_xbars = BInt(0)

InitRunScalar ==
    /\ PullIdle /\ AvgIdle /\ StepIdle
    /\ ScInit

\* every worker solves its proximal problem and sends x
ScSolve ==
    /\ sc_pc = "solve"
    /\ LET m == LcmAll([k \in ScWorkers |-> ProxDen(k)])
       IN  /\ sc_x' = [k \in ScWorkers |->
                          BScale(m \div ProxDen(k),
                                 ProxNum(k, sc_den, sc_xbar[k], sc_u[k]))]
           /\ sc_den' = BScale(m, sc_den)
           /\ sc_xbar' = [k \in ScWorkers |-> BScale(m, sc_xbar[k])]
           /\ sc_u' = [k \in ScWorkers |-> BScale(m, sc_u[k])]
           /\ sc_xbars' = BScale(m, sc_xbars)
    /\ sc_pc' = "gather"
    /\ UNCHANGED <<sc_i, inputVars, coordVars, workerVars, chanVars, histVars,
                   avgVars, stepVars, adaptVars, mapVars>>

\* xcnts[key] after one ++xcnts[key] per report
RECURSIVE ScCount(_, _)
ScCount(c, n) == IF n = 0 THEN c ELSE ScCount(PlusPlus(c), n - 1)

\* the coordinator gathers the reports and x_average() sums them, dividing
\* by xcnts[key] where that is not 0
ScAverage ==
    /\ sc_pc = "gather"
    /\ LET cnt == ScCount(0, Len(ScCenters))
           d == IF cnt # 0 THEN cnt ELSE 1
       IN  /\ sc_xbars' = BSum(sc_x)
           /\ sc_den' = BScale(d, sc_den)
           /\ sc_x' = [k \in ScWorkers |-> BScale(d, sc_x[k])]
           /\ sc_xbar' = [k \in ScWorkers |-> BScale(d, sc_xbar[k])]
           /\ sc_u' = [k \in ScWorkers |-> BScale(d, sc_u[k])]
    /\ sc_pc' = "scatter"
    /\ UNCHANGED <<sc_i, inputVars, coordVars, workerVars, chanVars, histVars,
                   avgVars, stepVars, adaptVars, mapVars>>

\* the coordinator scatters xbars; every worker stores it and adds
\* rho*(x - xbar) to u; after max_iter rounds consensus() returns xbars
ScUpdate ==
    /\ sc_pc = "scatter"
    /\ LET q == LcmAll([k \in ScWorkers |-> ScRho[k].den])
           xb == BScale(q, sc_xbars)
       IN  /\ sc_xbars' = xb
           /\ sc_den' = BScale(q, sc_den)
           /\ sc_x' = [k \in ScWorkers |-> BScale(q, sc_x[k])]
           /\ sc_xbar' = [k \in ScWorkers |-> xb]
           /\ sc_u' = [k \in ScWorkers |->
                          BAdd(BScale(q, sc_u[k]),
                               BScale(ScRho[k].num * (q \div ScRho[k].den),
                                      BSub(sc_x[k], sc_xbars)))]
    /\ sc_i' = sc_i + 1
    /\ sc_pc' = IF sc_i + 1 < MaxRounds THEN "solve" ELSE "done"
    /\ UNCHANGED <<inputVars, coordVars, workerVars, chanVars, histVars,
                   avgVars, stepVars, adaptVars, mapVars>>

NextRun == ScSolve \/ ScAverage \/ ScUpdate

SpecRun == InitRunScalar /\ [][NextRun]_vars

\* C13: the run of consensus() on f1(x) = (x-1)^2 and f2(x) = (x-5)^2 for 50
\* rounds with step size 1.0 and no spectral adaptation returns an average
\* for x within 1e-3 of 3.0, the minimizer of f1 + f2 (the mean of the
\* centres): |N*xbars - (1+5)*den| * 1000 <= N*den on the numerators.
C13_ConvergesToMidpoint ==
    sc_pc = "done" =>
        LET n == Len(ScCenters)
            mid == ScCenters[1] + ScCenters[2]
        IN  BLe(BScale(1000, BAbs(BSub(BScale(n, sc_xbars), BScale(mid, sc_den)))),
                BScale(n, sc_den))

====
